---- MODULE Spec2Model ----
(***************************************************************************)
(* Marker / cluster reconciliation of the timeline layer of the globe      *)
(* (client/src/app/[site]/globe/hooks/useTimelineLayer.ts).                *)
(*                                                                         *)
(* One mounted hook instance is modelled: its refs (popupRef,              *)
(* markersMapRef, openTooltipSessionIdRef), its state (selectedSession),   *)
(* its inputs (mapLoaded, mapView, activeSessions), the Mapbox source it   *)
(* feeds and the reconciliation passes (updateMarkers) that are suspended  *)
(* at `await Promise.all(promises)`.                                       *)
(*                                                                         *)
(* Modelling conventions                                                   *)
(*  - A coordinate is an integer number of 1e-5 degrees; an absent (null)  *)
(*    coordinate is the empty sequence <<>>, a present one is <<v>>.       *)
(*  - A session identifier stands for Weight[id] sessions that share their *)
(*    coordinates (visitors of one city): the code treats them alike in    *)
(*    every loop, so they are created, moved and destroyed together.       *)
(*  - The spatial index is external: at each zoom level it reports the     *)
(*    ingested points grouped as its cluster hierarchy groups them, or     *)
(*    nothing when the viewport is elsewhere; setData is taken to be       *)
(*    ingested at once; feature coordinates are those ingested.            *)
(*  - A continuation queued by an `await` with nothing left to wait for    *)
(*    runs before any other event, in the same step.                       *)
(***************************************************************************)
EXTENDS Integers, Sequences, FiniteSets, Bags, TLC

VARIABLES
    mapLoaded,               \* prop mapLoaded
    mapView,                 \* prop mapView
    activeSessions,          \* useTimelineSessions().activeSessions: id -> [lat, lon]
    popups,                  \* every mapboxgl.Popup constructed so far
    popupRef,                \* popupRef.current: index into popups, 0 = null
    openTooltipSessionId,    \* openTooltipSessionIdRef.current
    selectedSession,         \* useState selectedSession
    sourceData,              \* data of the geojson source: id -> <<lng, lat>>
    layersVisible,           \* layout visibility of the two cluster layers
    markersMap,              \* markersMapRef.current: id -> marker
    attached,                \* markers added to the map: id -> number of elements
    listening,               \* zoom/move/sourcedata/click handlers subscribed
    shouldShowClusters,      \* closure value of the subscribed effect run
    passes,                  \* suspended updateMarkers calls
    lastOp,                  \* what the last step did to the marker pool
    subscriptions,           \* handler sets registered by mapInstance.on (lines 604-615)
    expansions,              \* getClusterExpansionZoom queries not answered yet
    easedTo                  \* the last mapInstance.easeTo call

vars == <<mapLoaded, mapView, activeSessions, popups, popupRef,
          openTooltipSessionId, selectedSession, sourceData, layersVisible,
          markersMap, attached, listening, shouldShowClusters, passes, lastOp,
          subscriptions, expansions, easedTo>>

\* what handleClusterClick and its callback write
zoomVars == <<expansions, easedTo>>

----------------------------------------------------------------------------
(* Bounds and input sets *)

\* reconciliation passes suspended at once, with the tooltip in play
MaxPasses == 1
\* reconciliation passes suspended at once, the tooltip left alone
MaxOverlap == 2
\* sessions the co-located group g1 stands for
SmallGroup == 8
\* popups ever constructed (reached only by a faulty popup initialisation)
MaxPopups == 2
\* getClusterExpansionZoom queries unanswered at once
MaxExpansions == 1

CLUSTERING_THRESHOLD == 500

Null == "null"

\* s1 and s2 are single sessions, g1 is a group of sessions with the same
\* coordinates, g2 is the rest of the audience, sized so that all four
\* together are one session above the clustering threshold
Ids == {"s1", "s2", "g1", "g2"}

\* the model's handle for an array element whose session_id is empty; it
\* comes first in the array
NoId == "anon"

IdOrder == <<NoId, "s1", "s2", "g1", "g2">>

Weight == [anon |-> 1, s1 |-> 1, s2 |-> 1, g1 |-> SmallGroup,
           g2 |-> CLUSTERING_THRESHOLD - SmallGroup - 1]

\* the records the sessions carry: s1 is seen at two places, s2 has a
\* latitude of 0 in one of its records, the sessions of g2 have no coordinates
SessionA == [lat |-> <<4012345>>, lon |-> <<-7400004>>]
SessionAMoved == [lat |-> <<4012355>>, lon |-> <<-7400004>>]
SessionB == [lat |-> <<4012361>>, lon |-> <<-7400012>>]
SessionEquator == [lat |-> <<0>>, lon |-> <<1000000>>]
SessionGroup == [lat |-> <<4885661>>, lon |-> <<235222>>]
SessionNoGeo == [lat |-> <<>>, lon |-> <<>>]
SessionNoId == [lat |-> <<5150000>>, lon |-> <<-12000>>]

\* the arrays the session feed can deliver: none; two sessions; one of them
\* removed; one of them moved and the other on the equator; the whole
\* audience but one session (500 sessions); the whole audience (501)
NoSessions == << >>
TwoSessions == [s1 |-> SessionA, s2 |-> SessionB]
OneSession == [s2 |-> SessionB]
MovedSessions == [s1 |-> SessionAMoved, s2 |-> SessionEquator]
AlmostEveryone == [s1 |-> SessionA, g1 |-> SessionGroup, g2 |-> SessionNoGeo]
Everyone == [s1 |-> SessionA, s2 |-> SessionB, g1 |-> SessionGroup,
             g2 |-> SessionNoGeo]

SessionSets == {NoSessions, TwoSessions, OneSession, MovedSessions,
                AlmostEveryone, Everyone}

\* arrays with an element that has coordinates and an empty session_id
WithNoId == [anon |-> SessionNoId, s1 |-> SessionA, s2 |-> SessionB]
EveryoneAndNoId == [anon |-> SessionNoId, s1 |-> SessionA, s2 |-> SessionB,
                    g1 |-> SessionGroup, g2 |-> SessionNoGeo]

\* the arrays delivered while the element without session_id is exercised
NoIdFeed == {NoSessions, TwoSessions, WithNoId, EveryoneAndNoId}

\* the arrays delivered while the tooltip is exercised
TooltipFeed == {NoSessions, TwoSessions, MovedSessions, Everyone}

----------------------------------------------------------------------------
(* Pure helpers *)

\* JavaScript truthiness of a nullable number: null and 0 are falsy
Truthy(c) == c # <<>> /\ c[1] # 0

\* lodash round(x, 4) on a number of 1e-5 degrees: Math.round rounds half up
Round4(x) == ((x + 5) \div 10) * 10

\* faulty variant: no session is filtered out
HasCoordsKeepsAll(s) == TRUE

\* activeSessions.filter(s => s.lat && s.lon)
HasCoords(s) == Truthy(s.lat) /\ Truthy(s.lon)

Located(ss) == {id \in DOMAIN ss : HasCoords(ss[id])}

\* the number lodash round works on: toNumber(null) is 0
Num(c) == IF c = <<>> THEN 0 ELSE c[1]

\* geometry.coordinates of the feature of a session: [round(lon, 4), round(lat, 4)]
Coordinates(s) == <<Round4(Num(s.lon)), Round4(Num(s.lat))>>

\* the number of sessions the identifiers of S stand for
RECURSIVE WeightFrom(_, _)
WeightFrom(i, S) ==
    IF i > Len(IdOrder) THEN 0
    ELSE (IF IdOrder[i] \in S THEN Weight[IdOrder[i]] ELSE 0) + WeightFrom(i + 1, S)

PointCount(S) == WeightFrom(1, S)

\* activeSessions.length
Length(ss) == PointCount(DOMAIN ss)

\* the features handed to source.setData: properties = session, geometry =
\* the rounded coordinates
GeoJSON(ss) == [id \in Located(ss) |->
                  [session |-> ss[id], coordinates |-> Coordinates(ss[id])]]

\* faulty variant: the threshold itself already switches clustering on
ShouldClusterInclusive(n) == n >= CLUSTERING_THRESHOLD

\* const shouldShowClusters = activeSessions.length > 500
ShouldCluster(n) == n > CLUSTERING_THRESHOLD

SMALL_CLUSTER_LIMIT == 10

\* faulty variant: a cluster of exactly SMALL_CLUSTER_LIMIT points is expanded
IsSmallClusterInclusive(pc) == pc # 0 /\ pc <= SMALL_CLUSTER_LIMIT

\* f.properties.point_count && f.properties.point_count < 10
IsSmallCluster(pc) == pc # 0 /\ pc < SMALL_CLUSTER_LIMIT

CLUSTER_LAYER_MIN == 10

\* faulty variant: a cluster of exactly CLUSTER_LAYER_MIN points is not drawn
InClusterLayerExclusive(pc) == pc > CLUSTER_LAYER_MIN

\* filter of the cluster circle and count layers: point_count >= 10
InClusterLayer(pc) == pc >= CLUSTER_LAYER_MIN

\* the identifiers of S in the fixed order of IdOrder
SeqOf(S) == SelectSeq(IdOrder, LAMBDA id : id \in S)

\* properties.session_id of the feature of an array element
SessionIdOf(id) == IF id = NoId THEN "" ELSE id

\* the point feature of a session, as the source returns it
Feature(id, data) == [session_id |-> SessionIdOf(id), session |-> data[id].session,
                      coordinates |-> data[id].coordinates]

Features(S, data) == LET ids == SeqOf(S)
                     IN  [i \in 1..Len(ids) |-> Feature(ids[i], data)]

----------------------------------------------------------------------------
(* The diff of updateMarkers: lines 417-598 *)

\* new Set(unclusteredFeatures.map(f => f.properties?.session_id).filter(Boolean))
CurrentSessionIds(feats) ==
    {feats[i].session_id : i \in DOMAIN feats} \ {""}

\* the marker created for a feature: its position, and the coordinates and
\* session its click handler has captured
NewMarker(f) == [lngLat |-> f.coordinates, at |-> f.coordinates,
                 session |-> f.session]

\* faulty variant: the removal pass is skipped
RemovalPassKeepsAll(st, ids) == st

\* removal pass: cleanup(), marker.remove() and markersMap.delete(id) for
\* every pool entry absent from the target set
RemovalPass(st, ids) ==
    LET gone == {id \in DOMAIN st.pool : id \notin ids}
    IN  [st EXCEPT !.pool = [id \in DOMAIN st.pool \ gone |-> st.pool[id]],
                   !.attached = [id \in Ids |->
                                   IF id \in gone THEN st.attached[id] - 1
                                   ELSE st.attached[id]],
                   !.destroyed = gone]

\* faulty variant: the position of an existing marker is written
\* unconditionally
UpsertFeatureAlwaysMoves(st, f) ==
    LET id == f.session_id
    IN  IF id = "" THEN st
        ELSE IF id \in DOMAIN st.pool
        THEN [st EXCEPT !.pool[id].lngLat = f.coordinates,
                        !.moved = @ \cup {id}]
        ELSE [st EXCEPT !.pool = (id :> NewMarker(f)) @@ st.pool,
                        !.attached[id] = @ + 1,
                        !.created = @ \cup {id}]

\* faulty variant: a marker is created without looking the identifier up
UpsertFeatureNoLookup(st, f) ==
    LET id == f.session_id
    IN  IF id = "" THEN st
        ELSE [st EXCEPT !.pool = (id :> NewMarker(f)) @@
                                 [i \in DOMAIN st.pool \ {id} |-> st.pool[i]],
                        !.attached[id] = @ + 1,
                        !.created = @ \cup {id}]

\* faulty variant: a created marker is put on the map and not into the pool
UpsertFeatureForgetsEntry(st, f) ==
    LET id == f.session_id
    IN  IF id = "" THEN st
        ELSE IF id \in DOMAIN st.pool
        THEN IF st.pool[id].lngLat # f.coordinates
             THEN [st EXCEPT !.pool[id].lngLat = f.coordinates,
                             !.moved = @ \cup {id}]
             ELSE st
        ELSE [st EXCEPT !.attached[id] = @ + 1,
                        !.created = @ \cup {id}]

\* faulty variant: an existing marker is never repositioned
UpsertFeatureNeverMoves(st, f) ==
    LET id == f.session_id
    IN  IF id = "" THEN st
        ELSE IF id \in DOMAIN st.pool
        THEN st
        ELSE [st EXCEPT !.pool = (id :> NewMarker(f)) @@ st.pool,
                        !.attached[id] = @ + 1,
                        !.created = @ \cup {id}]

\* one iteration of unclusteredFeatures.forEach: update or create
UpsertFeature(st, f) ==
    LET id == f.session_id
    IN  IF id = "" THEN st
        ELSE IF id \in DOMAIN st.pool
        THEN IF st.pool[id].lngLat # f.coordinates
             THEN [st EXCEPT !.pool[id].lngLat = f.coordinates,
                             !.moved = @ \cup {id}]
             ELSE st
        ELSE [st EXCEPT !.pool = (id :> NewMarker(f)) @@ st.pool,
                        !.attached[id] = @ + 1,
                        !.created = @ \cup {id}]

\* faulty variant: the loop ends at the first feature without session_id
RECURSIVE UpsertPassStopsAtBlank(_, _)
UpsertPassStopsAtBlank(st, feats) ==
    IF feats = <<>> \/ Head(feats).session_id = "" THEN st
    ELSE UpsertPassStopsAtBlank(UpsertFeature(st, Head(feats)), Tail(feats))

\* unclusteredFeatures.forEach(...)
RECURSIVE UpsertPass(_, _)
UpsertPass(st, feats) ==
    IF feats = <<>> THEN st
    ELSE UpsertPass(UpsertFeature(st, Head(feats)), Tail(feats))

\* faulty variant: the diff upserts without removing
ReconcileUpsertOnly(pool, att, feats) ==
    UpsertPass([pool |-> pool, attached |-> att,
                created |-> {}, destroyed |-> {}, moved |-> {}], feats)

\* the synchronous tail of updateMarkers, from the target set to the last upsert
Reconcile(pool, att, feats) ==
    LET st0 == [pool |-> pool, attached |-> att,
                created |-> {}, destroyed |-> {}, moved |-> {}]
    IN  UpsertPass(RemovalPass(st0, CurrentSessionIds(feats)), feats)

\* faulty variant: the pool is cleared and the elements stay on the map
ClearAllMarkersKeepsElements(pool, att) == [pool |-> << >>, attached |-> att]

\* markersMap.forEach(cleanup + marker.remove) and markersMap.clear()
ClearAllMarkers(pool, att) ==
    [pool |-> << >>,
     attached |-> [id \in Ids |-> IF id \in DOMAIN pool THEN att[id] - 1 ELSE att[id]]]

\* the record of the last step that ran the marker effect or completed a
\* pass: for a pass, the cluster features it saw, the clusters it fetched the
\* leaves of, those whose fetch failed, its final feature list, what it
\* created, destroyed and moved, and whether the step recorded before it was
\* a pass with the same feature list; for an effect run that cleared the
\* pool, what it destroyed
NoOp == [kind |-> "none", clusters |-> {}, fetched |-> {}, failed |-> {},
         feats |-> <<>>, created |-> {}, destroyed |-> {}, moved |-> {},
         same |-> FALSE]

PassOp(r, p, prev) ==
    [kind |-> "pass", clusters |-> p.clusters, fetched |-> p.fetched,
     failed |-> p.failed, feats |-> p.feats, created |-> r.created,
     destroyed |-> r.destroyed, moved |-> r.moved,
     same |-> (prev.kind = "pass" /\ prev.feats = p.feats)]

ClearOp(pool) == [NoOp EXCEPT !.kind = "clear", !.destroyed = DOMAIN pool]

----------------------------------------------------------------------------
(* The spatial index: querySourceFeatures and getClusterLeaves *)

MapViews == {"timeline", "countries"}

\* the cluster hierarchy of the index, from the deepest zoom to the widest:
\* no clustering beyond clusterMaxZoom; the co-located sessions of g1
\* clustered; s1 and s2, which are close, clustered as well; one cluster
Hierarchy ==
    <<{},
      {{"g1"}},
      {{"s1", "s2"}, {"g1"}},
      {{"s1", "s2", "g1"}}>>

\* the clusters a zoom level shows of the ingested points
ClustersAt(level, data) ==
    {c \in {b \cap DOMAIN data : b \in Hierarchy[level]} : PointCount(c) >= 2}

\* what querySourceFeatures reports: the cluster features (properties.cluster,
\* cluster_id, point_count) and the ingested points outside every cluster;
\* nothing where no tile of the source is loaded
Views(data) ==
    {[points |-> DOMAIN data \ UNION ClustersAt(l, data),
      clusters |-> {[cluster_id |-> c, point_count |-> PointCount(c)] :
                       c \in ClustersAt(l, data)}] : l \in DOMAIN Hierarchy}
    \cup {[points |-> {}, clusters |-> {}]}

\* the features without properties.cluster of a view; a point on a tile
\* border is reported once per tile
PointFeatures(v, dup, data) ==
    LET fs == Features(v.points, data)
    IN  IF dup /\ fs # <<>> THEN Append(fs, Head(fs)) ELSE fs

\* the getClusterLeaves requests of a pass: one per small cluster, asking
\* for point_count leaves from offset 0
LeafFetches(v, data) ==
    {[cluster_id |-> c.cluster_id, leaves |-> Features(c.cluster_id, data)] :
        c \in {d \in v.clusters : IsSmallCluster(d.point_count)}}

\* the clusters of a view that the circle and count layers draw
DrawnClusters(v) == {c \in v.clusters : InClusterLayer(c.point_count)}

\* geometry.coordinates of a cluster feature: the mean of its points
RECURSIVE CoordinateSum(_, _, _, _)
CoordinateSum(i, S, data, k) ==
    IF i > Len(IdOrder) THEN 0
    ELSE (IF IdOrder[i] \in S
          THEN Weight[IdOrder[i]] * data[IdOrder[i]].coordinates[k] ELSE 0)
         + CoordinateSum(i + 1, S, data, k)

ClusterCoordinates(S, data) ==
    <<CoordinateSum(1, S, data, 1) \div PointCount(S),
      CoordinateSum(1, S, data, 2) \div PointCount(S)>>

\* what getClusterExpansionZoom can answer besides an error: no zoom, or the
\* zoom at which the cluster splits, at most clusterMaxZoom + 1
ExpansionAnswers == {<<>>, <<3>>, <<15>>}

EASE_DURATION == 500

----------------------------------------------------------------------------
(* updateMarkers, lines 360-599 *)

\* a call of updateMarkers: the cluster features it saw, the leaf fetches it
\* issued, those that failed, those that have not called back, and
\* unclusteredFeatures as pushed so far
Pass(clusters, fetches, feats) ==
    [clusters |-> clusters, fetched |-> {f.cluster_id : f \in fetches},
     failed |-> {}, pending |-> fetches, feats |-> feats]

\* faulty variant: a call cancels the calls still suspended
UpdateMarkersCancelling(pool, att, ps, ssc, sess, data, prev, limit) ==
    \E v \in IF ssc THEN Views(data)
             ELSE {[points |-> Located(sess), clusters |-> {}]},
       dup \in IF ssc THEN BOOLEAN ELSE {FALSE} :
        LET p == IF ssc
                 THEN Pass(v.clusters, LeafFetches(v, data), PointFeatures(v, dup, data))
                 ELSE Pass({}, {}, Features(Located(sess), GeoJSON(sess)))
            r == Reconcile(pool, att, p.feats)
        IN  IF p.pending = {}
            THEN /\ markersMap' = r.pool
                 /\ attached' = r.attached
                 /\ passes' = EmptyBag
                 /\ lastOp' = PassOp(r, p, prev)
            ELSE /\ BagCardinality(ps) < limit
                 /\ passes' = SetToBag({p})
                 /\ markersMap' = pool
                 /\ attached' = att
                 /\ lastOp' = prev

\* the pool after the call, and the call itself if it is suspended at
\* `await Promise.all(promises)` with leaf fetches outstanding; at most
\* `limit` calls are suspended at once
UpdateMarkers(pool, att, ps, ssc, sess, data, prev, limit) ==
    \E v \in IF ssc THEN Views(data)
             ELSE {[points |-> Located(sess), clusters |-> {}]},
       dup \in IF ssc THEN BOOLEAN ELSE {FALSE} :
        \E p \in {IF ssc
                  THEN Pass(v.clusters, LeafFetches(v, data), PointFeatures(v, dup, data))
                  ELSE Pass({}, {}, Features(Located(sess), GeoJSON(sess)))} :
            IF p.pending = {}
            THEN \E r \in {Reconcile(pool, att, p.feats)} :
                    /\ markersMap' = r.pool
                    /\ attached' = r.attached
                    /\ passes' = ps
                    /\ lastOp' = PassOp(r, p, prev)
            ELSE /\ BagCardinality(ps) < limit
                 /\ passes' = ps (+) SetToBag({p})
                 /\ markersMap' = pool
                 /\ attached' = att
                 /\ lastOp' = prev

----------------------------------------------------------------------------
(* The popup *)

\* popupRef.current && popupRef.current.isOpen()
PopupIsOpen == popupRef # 0 /\ popups[popupRef].open

\* new mapboxgl.Popup({...}): not on the map yet
NewPopup == [open |-> FALSE, lngLat |-> <<>>, html |-> Null]

\* popup.remove(): off the map; the position and content it keeps cannot be
\* observed before the next setLngLat and setHTML replace them
Removed(p) == NewPopup

\* faulty variant: every run of the initialisation effect makes a popup
InitPopupEveryRun(ref, pops) ==
    [ref |-> Len(pops) + 1, popups |-> Append(pops, NewPopup)]

\* if (!popupRef.current) popupRef.current = new mapboxgl.Popup(...)
InitPopup(ref, pops) ==
    IF ref = 0
    THEN [ref |-> Len(pops) + 1, popups |-> Append(pops, NewPopup)]
    ELSE [ref |-> ref, popups |-> pops]

\* faulty variant: the popup is removed and the identifier is kept
CloseIfOpenKeepsId(ref, pops, openId) ==
    IF ref # 0 /\ pops[ref].open
    THEN [popups |-> [pops EXCEPT ![ref] = Removed(@)], openId |-> openId]
    ELSE [popups |-> pops, openId |-> openId]

\* the body shared by the currentTime effect and handleMapClick
CloseIfOpen(ref, pops, openId) ==
    IF ref # 0 /\ pops[ref].open
    THEN [popups |-> [pops EXCEPT ![ref] = Removed(@)], openId |-> Null]
    ELSE [popups |-> pops, openId |-> openId]

\* faulty variant: a click always opens the tooltip
ToggleTooltipAlwaysOpens(ref, pops, openId, id, m) ==
    IF ref = 0 THEN [popups |-> pops, openId |-> openId]
    ELSE [popups |-> [pops EXCEPT ![ref] =
                         [open |-> TRUE, lngLat |-> m.at, html |-> id]],
          openId |-> id]

\* toggleTooltip of the marker m created for session id
ToggleTooltip(ref, pops, openId, id, m) ==
    IF ref = 0 THEN [popups |-> pops, openId |-> openId]
    ELSE IF pops[ref].open /\ openId = id
    THEN [popups |-> [pops EXCEPT ![ref] = Removed(@)], openId |-> Null]
    ELSE [popups |-> [pops EXCEPT ![ref] =
                         [open |-> TRUE, lngLat |-> m.at, html |-> id]],
          openId |-> id]

----------------------------------------------------------------------------
(* The effects *)

\* faulty variant: the time effect leaves the popup alone
TimeEffectSkips(ref, pops, openId) == [popups |-> pops, openId |-> openId]

\* effect on [currentTime]: close the tooltip
TimeEffect(ref, pops, openId) == CloseIfOpen(ref, pops, openId)

\* faulty variant: the cleanup unsubscribes and keeps the markers
MarkerEffectCleanupKeeps(pool, att) == [pool |-> pool, attached |-> att]

\* the cleanup returned by the marker effect: clear the pool, unsubscribe;
\* the calls suspended at their await keep their continuation
MarkerEffectCleanup(pool, att) == ClearAllMarkers(pool, att)

\* faulty variant: the layers are not hidden outside the timeline view
ClusterLayersShownInEveryView(mv, n) == ShouldCluster(n)

\* the visibility the effect gives the cluster circle and count layers:
\* "none" outside the timeline view (lines 304-309), otherwise
\* shouldShowClusters ? "visible" : "none" (lines 324-337)
ClusterLayersVisible(mv, n) == mv = "timeline" /\ ShouldCluster(n)

\* faulty variant: the cleanup leaves the handlers registered
UnsubscribeForgets(n) == n

\* the four mapInstance.off calls of the cleanup (lines 626-629)
Unsubscribe(n) == n - 1

\* the four mapInstance.on calls of a run (lines 604-615)
Subscribe(n) == n + 1

\* effect on [activeSessions, mapLoaded, map, mapView] under the new props:
\* the cleanup of the previous run, then the body
MarkerEffect(ml, mv, sess, limit) ==
    LET c == IF listening THEN MarkerEffectCleanup(markersMap, attached)
             ELSE [pool |-> markersMap, attached |-> attached]
        subs == IF listening THEN Unsubscribe(subscriptions) ELSE subscriptions
        ps == passes
        op == IF listening THEN ClearOp(markersMap) ELSE NoOp
    IN  IF ~ml
        THEN /\ markersMap' = c.pool
             /\ attached' = c.attached
             /\ passes' = ps
             /\ lastOp' = op
             /\ listening' = FALSE
             /\ subscriptions' = subs
             /\ shouldShowClusters' = FALSE
             /\ UNCHANGED <<layersVisible, sourceData>>
        ELSE IF mv # "timeline"
        THEN LET d == ClearAllMarkers(c.pool, c.attached)
             IN  /\ markersMap' = d.pool
                 /\ attached' = d.attached
                 /\ passes' = ps
                 /\ lastOp' = ClearOp(markersMap)
                 /\ layersVisible' = ClusterLayersVisible(mv, Length(sess))
                 /\ listening' = FALSE
                 /\ subscriptions' = subs
                 /\ shouldShowClusters' = FALSE
                 /\ UNCHANGED sourceData
        ELSE LET ssc == ShouldCluster(Length(sess))
                 geojson == GeoJSON(sess)
             IN  /\ shouldShowClusters' = ssc
                 /\ layersVisible' = ClusterLayersVisible(mv, Length(sess))
                 /\ sourceData' = geojson
                 /\ UpdateMarkers(c.pool, c.attached, ps, ssc, sess, geojson,
                                  op, limit)
                 /\ listening' = TRUE
                 /\ subscriptions' = Subscribe(subs)

\* effect on [map, mapLoaded]: the popup is created once
InitEffect(ml) ==
    IF ml
    THEN LET p == InitPopup(popupRef, popups)
         IN  popupRef' = p.ref /\ popups' = p.popups
    ELSE UNCHANGED <<popupRef, popups>>

----------------------------------------------------------------------------
(* Steps *)

Init ==
    /\ mapLoaded = FALSE
    /\ mapView \in MapViews
    /\ activeSessions = << >>
    /\ popups = <<>>
    /\ popupRef = 0
    /\ openTooltipSessionId = Null
    /\ selectedSession = Null
    /\ sourceData = << >>
    /\ layersVisible = FALSE
    /\ markersMap = << >>
    /\ attached = [id \in Ids |-> 0]
    /\ listening = FALSE
    /\ shouldShowClusters = FALSE
    /\ passes = EmptyBag
    /\ lastOp = NoOp
    /\ subscriptions = 0
    /\ expansions = EmptyBag
    /\ easedTo = <<>>

\* the map finishes loading, or is replaced and loads again
SetMapLoaded(limit) ==
    /\ Len(popups) < MaxPopups
    /\ mapLoaded' = ~mapLoaded
    /\ InitEffect(mapLoaded')
    /\ MarkerEffect(mapLoaded', mapView, activeSessions, limit)
    /\ UNCHANGED <<mapView, activeSessions, openTooltipSessionId, selectedSession>>
    /\ UNCHANGED zoomVars

\* the user selects another view of the globe
SetMapView(mv, limit) ==
    /\ mv # mapView
    /\ mapView' = mv
    /\ MarkerEffect(mapLoaded, mv, activeSessions, limit)
    /\ UNCHANGED <<mapLoaded, activeSessions, popups, popupRef,
                   openTooltipSessionId, selectedSession>>
    /\ UNCHANGED zoomVars

\* the time cursor moves and the active sessions stay the same array
TimeChange ==
    /\ LET t == TimeEffect(popupRef, popups, openTooltipSessionId)
       IN  popups' = t.popups /\ openTooltipSessionId' = t.openId
    /\ UNCHANGED <<mapLoaded, mapView, activeSessions, popupRef, selectedSession,
                   sourceData, layersVisible, markersMap, attached, listening,
                   shouldShowClusters, passes, lastOp>>
    /\ UNCHANGED <<subscriptions, zoomVars>>

\* the session feed delivers a new array at the same time cursor
SessionsChange(sess, limit) ==
    /\ activeSessions' = sess
    /\ UNCHANGED <<mapLoaded, mapView, popups, popupRef, openTooltipSessionId,
                   selectedSession>>
    /\ UNCHANGED zoomVars
    /\ MarkerEffect(mapLoaded, mapView, sess, limit)

\* the time cursor moves and the active sessions are recomputed
TimeAndSessionsChange(sess, limit) ==
    /\ activeSessions' = sess
    /\ LET t == TimeEffect(popupRef, popups, openTooltipSessionId)
       IN  popups' = t.popups /\ openTooltipSessionId' = t.openId
    /\ MarkerEffect(mapLoaded, mapView, sess, limit)
    /\ UNCHANGED <<mapLoaded, mapView, popupRef, selectedSession>>
    /\ UNCHANGED zoomVars

\* faulty variant: the call closes the tooltip before it reconciles
MapEventClosesTooltip(limit) ==
    /\ listening
    /\ UpdateMarkers(markersMap, attached, passes, shouldShowClusters,
                     activeSessions, sourceData, lastOp, limit)
    /\ LET t == CloseIfOpen(popupRef, popups, openTooltipSessionId)
       IN  popups' = t.popups /\ openTooltipSessionId' = t.openId
    /\ UNCHANGED <<mapLoaded, mapView, activeSessions, popupRef,
                   selectedSession, sourceData,
                   layersVisible, listening, shouldShowClusters>>
    /\ UNCHANGED <<subscriptions, zoomVars>>

\* a zoom, move or sourcedata event of the map reaches the subscribed updateMarkers
MapEvent(limit) ==
    /\ listening
    /\ UNCHANGED <<mapLoaded, mapView, activeSessions, popups, popupRef,
                   openTooltipSessionId, selectedSession, sourceData,
                   layersVisible, listening, shouldShowClusters>>
    /\ UNCHANGED <<subscriptions, zoomVars>>
    /\ UpdateMarkers(markersMap, attached, passes, shouldShowClusters,
                     activeSessions, sourceData, lastOp, limit)

\* faulty variant: the diff is applied at every callback, with the leaves
\* received so far
LeafCallbackEager(p, fetch, ok) ==
    /\ BagIn(p, passes)
    /\ fetch \in p.pending
    /\ LET q == [p EXCEPT !.feats = IF ok THEN @ \o fetch.leaves ELSE @,
                           !.failed = IF ok THEN @ ELSE @ \cup {fetch.cluster_id},
                           !.pending = @ \ {fetch}]
           rest == passes (-) SetToBag({p})
           r == Reconcile(markersMap, attached, q.feats)
       IN  /\ passes' = IF q.pending # {} THEN rest (+) SetToBag({q}) ELSE rest
           /\ markersMap' = r.pool
           /\ attached' = r.attached
           /\ lastOp' = PassOp(r, q, lastOp)
    /\ UNCHANGED <<mapLoaded, mapView, activeSessions, popups, popupRef,
                   openTooltipSessionId, selectedSession, sourceData,
                   layersVisible, listening, shouldShowClusters>>
    /\ UNCHANGED <<subscriptions, zoomVars>>

\* faulty variant: the leaves are pushed whether or not the fetch failed
LeafCallbackIgnoresError(p, fetch, ok) ==
    /\ BagIn(p, passes)
    /\ fetch \in p.pending
    /\ LET q == [p EXCEPT !.feats = @ \o fetch.leaves,
                           !.failed = IF ok THEN @ ELSE @ \cup {fetch.cluster_id},
                           !.pending = @ \ {fetch}]
           rest == passes (-) SetToBag({p})
           r == Reconcile(markersMap, attached, q.feats)
       IN  IF q.pending # {}
           THEN /\ passes' = rest (+) SetToBag({q})
                /\ UNCHANGED <<markersMap, attached, lastOp>>
           ELSE /\ passes' = rest
                /\ markersMap' = r.pool
                /\ attached' = r.attached
                /\ lastOp' = PassOp(r, q, lastOp)
    /\ UNCHANGED <<mapLoaded, mapView, activeSessions, popups, popupRef,
                   openTooltipSessionId, selectedSession, sourceData,
                   layersVisible, listening, shouldShowClusters>>
    /\ UNCHANGED <<subscriptions, zoomVars>>

\* faulty variant: the promise of a failed fetch is never resolved, the call
\* stays suspended
LeafCallbackErrorHangs(p, fetch, ok) ==
    /\ BagIn(p, passes)
    /\ fetch \in p.pending
    /\ LET q == [p EXCEPT !.feats = IF ok THEN @ \o fetch.leaves ELSE @,
                           !.failed = IF ok THEN @ ELSE @ \cup {fetch.cluster_id},
                           !.pending = @ \ {fetch}]
           rest == passes (-) SetToBag({p})
           r == Reconcile(markersMap, attached, q.feats)
       IN  IF q.pending # {} \/ q.failed # {}
           THEN /\ passes' = rest (+) SetToBag({q})
                /\ UNCHANGED <<markersMap, attached, lastOp>>
           ELSE /\ passes' = rest
                /\ markersMap' = r.pool
                /\ attached' = r.attached
                /\ lastOp' = PassOp(r, q, lastOp)
    /\ UNCHANGED <<mapLoaded, mapView, activeSessions, popups, popupRef,
                   openTooltipSessionId, selectedSession, sourceData,
                   layersVisible, listening, shouldShowClusters>>
    /\ UNCHANGED <<subscriptions, zoomVars>>

\* the callback of one getClusterLeaves request of the suspended call p: push
\* the leaves unless it failed, resolve; the last one resumes the call, which
\* applies its diff to the pool as it is then
LeafCallback(p, fetch, ok) ==
    /\ BagIn(p, passes)
    /\ fetch \in p.pending
    /\ LET q == [p EXCEPT !.feats = IF ok THEN @ \o fetch.leaves ELSE @,
                           !.failed = IF ok THEN @ ELSE @ \cup {fetch.cluster_id},
                           !.pending = @ \ {fetch}]
           rest == passes (-) SetToBag({p})
       IN  IF q.pending # {}
           THEN /\ passes' = rest (+) SetToBag({q})
                /\ UNCHANGED <<markersMap, attached, lastOp>>
           ELSE \E r \in {Reconcile(markersMap, attached, q.feats)} :
                   /\ passes' = rest
                   /\ markersMap' = r.pool
                   /\ attached' = r.attached
                   /\ lastOp' = PassOp(r, q, lastOp)
    /\ UNCHANGED <<mapLoaded, mapView, activeSessions, popups, popupRef,
                   openTooltipSessionId, selectedSession, sourceData,
                   layersVisible, listening, shouldShowClusters>>
    /\ UNCHANGED <<subscriptions, zoomVars>>

\* a click on the element of the marker of session id; the markers clicked
\* are those of the single sessions
MarkerClick(id) ==
    /\ id \in DOMAIN markersMap
    /\ Weight[id] = 1
    /\ LET t == ToggleTooltip(popupRef, popups, openTooltipSessionId, id, markersMap[id])
       IN  popups' = t.popups /\ openTooltipSessionId' = t.openId
    /\ UNCHANGED <<mapLoaded, mapView, activeSessions, popupRef, selectedSession,
                   sourceData, layersVisible, markersMap, attached, listening,
                   shouldShowClusters, passes, lastOp>>
    /\ UNCHANGED <<subscriptions, zoomVars>>

\* a click on the map background reaches the subscribed handleMapClick
MapClick ==
    /\ listening
    /\ LET t == CloseIfOpen(popupRef, popups, openTooltipSessionId)
       IN  popups' = t.popups /\ openTooltipSessionId' = t.openId
    /\ UNCHANGED <<mapLoaded, mapView, activeSessions, popupRef, selectedSession,
                   sourceData, layersVisible, markersMap, attached, listening,
                   shouldShowClusters, passes, lastOp>>
    /\ UNCHANGED <<subscriptions, zoomVars>>

\* faulty variant: the session is selected and the popup stays open
DetailClickKeepsOpen ==
    /\ PopupIsOpen
    /\ selectedSession' = popups[popupRef].html
    /\ UNCHANGED <<mapLoaded, mapView, activeSessions, popups, popupRef,
                   openTooltipSessionId, sourceData, layersVisible, markersMap,
                   attached, listening, shouldShowClusters, passes, lastOp>>
    /\ UNCHANGED <<subscriptions, zoomVars>>

\* a click on the "View Details" button of the open popup
DetailClick ==
    /\ PopupIsOpen
    /\ selectedSession' = popups[popupRef].html
    /\ popups' = [popups EXCEPT ![popupRef] = Removed(@)]
    /\ openTooltipSessionId' = Null
    /\ UNCHANGED <<mapLoaded, mapView, activeSessions, popupRef, sourceData,
                   layersVisible, markersMap, attached, listening,
                   shouldShowClusters, passes, lastOp>>
    /\ UNCHANGED <<subscriptions, zoomVars>>

\* the features queryRenderedFeatures reports of the cluster circle layer
\* under a click, when the viewport shows the view v
RenderedClusters(v) == IF layersVisible THEN DrawnClusters(v) ELSE {}

\* a click on the map reaches handleClusterClick, subscribed while the map is
\* loaded: the expansion zoom of the cluster under the click is requested;
\* nothing is done when no cluster of the circle layer is there
ClusterClick(v) ==
    /\ mapLoaded
    /\ v \in Views(sourceData)
    /\ IF RenderedClusters(v) = {}
       THEN UNCHANGED zoomVars
       ELSE \E c \in RenderedClusters(v) :
               /\ BagCardinality(expansions) < MaxExpansions
               /\ expansions' = expansions (+) SetToBag({
                      [cluster_id |-> c.cluster_id,
                       coordinates |-> ClusterCoordinates(c.cluster_id, sourceData)]})
               /\ UNCHANGED easedTo
    /\ UNCHANGED <<mapLoaded, mapView, activeSessions, popups, popupRef,
                   openTooltipSessionId, selectedSession, sourceData,
                   layersVisible, markersMap, attached, listening,
                   shouldShowClusters, passes, lastOp, subscriptions>>

\* faulty variant: the callback eases to whatever zoom it is given
ExpansionCallbackIgnoresError(q, err, zoom) ==
    /\ BagIn(q, expansions)
    /\ expansions' = expansions (-) SetToBag({q})
    /\ easedTo' = <<[center |-> q.coordinates, zoom |-> Num(zoom),
                     duration |-> EASE_DURATION]>>
    /\ UNCHANGED <<mapLoaded, mapView, activeSessions, popups, popupRef,
                   openTooltipSessionId, selectedSession, sourceData,
                   layersVisible, markersMap, attached, listening,
                   shouldShowClusters, passes, lastOp, subscriptions>>

\* the callback of getClusterExpansionZoom: if (err || !zoom) return;
\* otherwise easeTo the coordinates of the clicked feature at that zoom
ExpansionCallback(q, err, zoom) ==
    /\ BagIn(q, expansions)
    /\ expansions' = expansions (-) SetToBag({q})
    /\ IF err \/ ~Truthy(zoom)
       THEN UNCHANGED easedTo
       ELSE easedTo' = <<[center |-> q.coordinates, zoom |-> zoom[1],
                          duration |-> EASE_DURATION]>>
    /\ UNCHANGED <<mapLoaded, mapView, activeSessions, popups, popupRef,
                   openTooltipSessionId, selectedSession, sourceData,
                   layersVisible, markersMap, attached, listening,
                   shouldShowClusters, passes, lastOp, subscriptions>>

\* the whole hook but the cluster click, with at most MaxPasses calls
\* suspended at once
Next ==
    \/ SetMapLoaded(MaxPasses)
    \/ \E mv \in MapViews : SetMapView(mv, MaxPasses)
    \/ TimeChange
    \/ \E sess \in TooltipFeed : SessionsChange(sess, MaxPasses)
    \/ \E sess \in TooltipFeed : TimeAndSessionsChange(sess, MaxPasses)
    \/ MapEvent(MaxPasses)
    \/ \E p \in BagToSet(passes) : \E fetch \in p.pending :
          \E ok \in BOOLEAN : LeafCallback(p, fetch, ok)
    \/ \E id \in Ids : MarkerClick(id)
    \/ MapClick
    \/ DetailClick

Spec == Init /\ [][Next]_vars

\* the hook with the tooltip left alone and at most MaxOverlap calls
\* suspended at once: the steps that read or write the marker pool, the
\* source and the suspended calls; none of them reads the popup, and the
\* steps left out write nothing but the popup and the selection
NextPool ==
    \/ SetMapLoaded(MaxOverlap)
    \/ \E mv \in MapViews : SetMapView(mv, MaxOverlap)
    \/ \E sess \in SessionSets : SessionsChange(sess, MaxOverlap)
    \/ MapEvent(MaxOverlap)
    \/ \E p \in BagToSet(passes) : \E fetch \in p.pending :
          \E ok \in BOOLEAN : LeafCallback(p, fetch, ok)

SpecPool == Init /\ [][NextPool]_vars

\* the calls of updateMarkers with the tooltip open: the steps that run the
\* marker effect or updateMarkers, and the click that opens the tooltip of a
\* marker; the steps that close the tooltip themselves are left out
NextTooltipPass ==
    \/ SetMapLoaded(MaxPasses)
    \/ \E mv \in MapViews : SetMapView(mv, MaxPasses)
    \/ \E sess \in TooltipFeed : SessionsChange(sess, MaxPasses)
    \/ MapEvent(MaxPasses)
    \/ \E p \in BagToSet(passes) : \E fetch \in p.pending :
          \E ok \in BOOLEAN : LeafCallback(p, fetch, ok)
    \/ \E id \in Ids : MarkerClick(id)

SpecTooltipPass == Init /\ [][NextTooltipPass]_vars

\* one suspended call of updateMarkers followed to its end: the steps of the
\* pool, of which none suspends a second call while one is suspended; the
\* index calls every leaf fetch back, with leaves or with an error
NextOnePass ==
    \/ /\ \/ SetMapLoaded(MaxOverlap)
          \/ \E mv \in MapViews : SetMapView(mv, MaxOverlap)
          \/ \E sess \in SessionSets : SessionsChange(sess, MaxOverlap)
          \/ MapEvent(MaxOverlap)
       /\ (passes = EmptyBag \/ passes' = passes)
    \/ \E p \in BagToSet(passes) : \E fetch \in p.pending :
          \E ok \in BOOLEAN : LeafCallback(p, fetch, ok)

SpecOnePass ==
    /\ Init /\ [][NextOnePass]_vars
    /\ WF_vars(\E p \in BagToSet(passes) : \E fetch \in p.pending :
                  \E ok \in BOOLEAN : LeafCallback(p, fetch, ok))

\* the pool when the session feed delivers an element without session_id
NextNoId ==
    \/ SetMapLoaded(MaxPasses)
    \/ \E mv \in MapViews : SetMapView(mv, MaxPasses)
    \/ \E sess \in NoIdFeed : SessionsChange(sess, MaxPasses)
    \/ MapEvent(MaxPasses)
    \/ \E p \in BagToSet(passes) : \E fetch \in p.pending :
          \E ok \in BOOLEAN : LeafCallback(p, fetch, ok)

SpecNoId == Init /\ [][NextNoId]_vars

\* the cluster click: the steps that write what handleClusterClick reads
\* (the map, the view, the source and the layer visibility), the click and
\* the answer of the index; the calls of updateMarkers that get suspended
\* stay so, the click reads none of them
NextZoom ==
    \/ SetMapLoaded(MaxPasses)
    \/ \E mv \in MapViews : SetMapView(mv, MaxPasses)
    \/ \E sess \in SessionSets : SessionsChange(sess, MaxPasses)
    \/ \E v \in Views(sourceData) : ClusterClick(v)
    \/ \E q \in BagToSet(expansions) : \E err \in BOOLEAN :
          \E zoom \in ExpansionAnswers : ExpansionCallback(q, err, zoom)

SpecZoom == Init /\ [][NextZoom]_vars

----------------------------------------------------------------------------
(* Properties *)

\* C1: once a reconciliation pass has completed and no other pass is
\* suspended, the identifiers of the marker pool are exactly the session
\* identifiers of the features of that pass.
C1_PoolEqualsTarget ==
    (lastOp.kind = "pass" /\ passes = EmptyBag)
        => DOMAIN markersMap =
              {lastOp.feats[i].session_id : i \in DOMAIN lastOp.feats} \ {""}

\* a pass that fetched leaves has completed, removing stale markers and
\* creating missing ones
C1_Witness ==
    /\ lastOp.kind = "pass" /\ passes = EmptyBag
    /\ lastOp.fetched # {} /\ lastOp.created # {} /\ lastOp.destroyed # {}

\* C2: right after a reconciliation pass completes, every marker of the pool
\* bound to an active session is at that session's current coordinates, also
\* when the pass was started under older inputs.
C2_PositionsCurrent ==
    lastOp.kind = "pass"
        => \A id \in DOMAIN markersMap :
              id \in Located(activeSessions)
                 => markersMap[id].lngLat = Coordinates(activeSessions[id])

\* C3: a pass that runs with the feature list of the pass completed just
\* before it creates no marker, destroys no marker and writes no position.
C3_Idempotent ==
    (lastOp.kind = "pass" /\ lastOp.same)
        => lastOp.created = {} /\ lastOp.destroyed = {} /\ lastOp.moved = {}

\* a pass with fetched leaves has been repeated over a pool that holds markers
C3_Witness ==
    /\ lastOp.kind = "pass" /\ lastOp.same
    /\ lastOp.fetched # {} /\ lastOp.fetched # lastOp.failed
    /\ DOMAIN markersMap # {}

\* C4: no session identifier ever has more than one marker alive, also when
\* the feature list of a pass names a session twice.
C4_OneMarkerPerSession == \A id \in Ids : attached[id] <= 1

\* a pass whose feature list names a session twice has completed and the
\* session has its marker
C4_Witness ==
    /\ lastOp.kind = "pass"
    /\ \E i, j \in DOMAIN lastOp.feats :
          /\ i < j
          /\ lastOp.feats[i].session_id = lastOp.feats[j].session_id
          /\ lastOp.feats[i].session_id \in DOMAIN markersMap

\* C5: at most one popup is ever constructed, whatever the number of runs of
\* the initialisation effect, and at most one popup is open.
C5_SinglePopup ==
    /\ Len(popups) <= 1
    /\ Cardinality({i \in DOMAIN popups : popups[i].open}) <= 1

\* the popup is open while the map is not loaded: the initialisation effect
\* has been torn down after creating it and runs again at the next load
C5_Witness == Len(popups) = 1 /\ PopupIsOpen /\ ~mapLoaded

\* C6: whenever a session identifier is recorded as the one the tooltip is
\* open for, the pool holds a marker of that identifier.
C6_TooltipHasMarker ==
    openTooltipSessionId # Null => openTooltipSessionId \in DOMAIN markersMap

\* C7: an identifier is recorded as 'open for' exactly when the popup is open.
C7_PopupConsistent == (openTooltipSessionId # Null) <=> PopupIsOpen

\* the tooltip is open again after a detail click closed it
C7_Witness ==
    PopupIsOpen /\ openTooltipSessionId = "s2" /\ selectedSession = "s1"

C9_FetchIffSmall ==
    /\ \A p \in BagToSet(passes) : \A c \in p.clusters :
          (c.cluster_id \in p.fetched) <=> (c.point_count < 10)
    /\ \A c \in lastOp.clusters :
          (c.cluster_id \in lastOp.fetched) <=> (c.point_count < 10)
    /\ lastOp.kind = "pass" =>
          \A c \in lastOp.clusters :
             /\ (c.point_count < 10 /\ c.cluster_id \notin lastOp.failed)
                   => c.cluster_id \subseteq DOMAIN markersMap
             /\ c.point_count >= 10 => c.cluster_id \cap DOMAIN markersMap = {}

\* a pass has completed that expanded a cluster of fewer than 10 points
C9_Witness ==
    /\ lastOp.kind = "pass"
    /\ \E c \in lastOp.clusters :
          /\ c.point_count < 10 /\ c.cluster_id \notin lastOp.failed
          /\ c.cluster_id \subseteq DOMAIN markersMap

\* C10: the effect run that is subscribed decided to show clusters exactly
\* when there are more than 500 active sessions.
C10_ClusterDecision ==
    listening =>
        /\ shouldShowClusters <=> (Length(activeSessions) > 500)
        /\ Length(activeSessions) = 501 => shouldShowClusters
        /\ Length(activeSessions) = 500 => ~shouldShowClusters

\* 501 sessions are active and clusters are shown
C10_Witness == listening /\ Length(activeSessions) = 501 /\ shouldShowClusters

\* C11: when the session array goes from two sessions with markers to one of
\* them, below the clustering threshold, the marker of the removed session is
\* the only one destroyed and the marker of the remaining session is the same
\* marker as before: not destroyed, not created again, not moved.
C11_IdentityPreserved ==
    [][(/\ listening /\ ~shouldShowClusters /\ passes = EmptyBag
        /\ activeSessions = TwoSessions /\ DOMAIN markersMap = {"s1", "s2"}
        /\ activeSessions' = OneSession
        /\ mapLoaded' = mapLoaded /\ mapView' = mapView)
          => /\ DOMAIN markersMap' = {"s2"}
             /\ markersMap'["s2"] = markersMap["s2"]
             /\ "s2" \notin lastOp'.created
             /\ "s2" \notin lastOp'.moved]_vars

\* C12: a step that leaves a call of updateMarkers suspended, either by
\* starting it or by delivering one of several outstanding leaf callbacks,
\* does nothing to the marker pool.
C12_NoPartialApply ==
    [][/\ \A p \in BagToSet(passes) : \A fetch \in p.pending : \A ok \in BOOLEAN :
             (LeafCallback(p, fetch, ok) /\ p.pending # {fetch})
                => UNCHANGED <<markersMap, attached, lastOp>>
       /\ (/\ MapEvent(MaxOverlap)
           /\ BagCardinality(passes') > BagCardinality(passes))
                => UNCHANGED <<markersMap, attached, lastOp>>]_vars

\* a call that issued two leaf fetches has received the leaves of one of
\* them and the pool holds none of them yet
C12_Witness ==
    \E p \in BagToSet(passes) :
        /\ Cardinality(p.fetched) = 2 /\ Cardinality(p.pending) = 1
        /\ p.failed = {} /\ p.feats # <<>>
        /\ \E i \in DOMAIN p.feats : p.feats[i].session_id \notin DOMAIN markersMap

\* C13: a leaf fetch that fails is not issued again by its pass and the pass
\* completes: no session of the failed cluster is in its feature list or
\* gets a marker from it, while the sessions of the clusters fetched with
\* success and the unclustered points all have their markers.
C13_FailedFetchOmitted ==
    /\ \A p \in BagToSet(passes) :
          /\ p.failed \subseteq p.fetched
          /\ p.failed \cap {f.cluster_id : f \in p.pending} = {}
    /\ lastOp.kind = "pass" =>
          /\ lastOp.failed \subseteq lastOp.fetched
          /\ \A c \in lastOp.failed :
                /\ c \cap DOMAIN markersMap = {}
                /\ \A i \in DOMAIN lastOp.feats : lastOp.feats[i].session_id \notin c
          /\ \A c \in lastOp.fetched \ lastOp.failed :
                /\ c \subseteq DOMAIN markersMap
                /\ \A id \in c : \E i \in DOMAIN lastOp.feats :
                      lastOp.feats[i].session_id = id

\* a pass has completed with one leaf fetch failed and another successful
C13_Witness ==
    /\ lastOp.kind = "pass"
    /\ lastOp.failed # {} /\ lastOp.failed # lastOp.fetched
    /\ DOMAIN markersMap # {}

\* C14: the step in which the last of the suspended calls of updateMarkers
\* completes leaves in the pool exactly the session identifiers of the
\* feature list of that call, whenever the calls were started.
C14_LastCompletedWins ==
    [][(passes # EmptyBag /\ passes' = EmptyBag)
          => /\ lastOp'.kind = "pass"
             /\ DOMAIN markersMap' =
                   {lastOp'.feats[i].session_id : i \in DOMAIN lastOp'.feats} \ {""}]_vars

\* every call has completed, and the one that completed last had been
\* started before the session array changed: the pool holds a marker made
\* from a session record that is no longer the active one
C14_Witness ==
    /\ passes = EmptyBag /\ lastOp.kind = "pass" /\ lastOp.fetched # {}
    /\ \E id \in DOMAIN markersMap \cap DOMAIN activeSessions :
          markersMap[id].session # activeSessions[id]

\* C15: once no call of updateMarkers is suspended, the pool shows the latest
\* inputs: without clustering, a marker for exactly the active sessions that
\* have coordinates; with clustering, markers of ingested sessions only.
C15_ConvergesToLatest ==
    (listening /\ passes = EmptyBag)
        => IF shouldShowClusters
           THEN DOMAIN markersMap \subseteq DOMAIN sourceData
           ELSE DOMAIN markersMap = Located(activeSessions)

\* C16: while no run of the marker effect is subscribed (the map is not
\* loaded or another view is shown), the pool is empty: nothing puts a
\* marker into it after the teardown.
C16_EmptyAfterTeardown == ~listening => DOMAIN markersMap = {}

\* C17: a step that switches the view away from the timeline, or that flips
\* the clustering decision of the subscribed effect run, carries no marker
\* over: the pool is empty after it, or holds only markers that the
\* reconciliation pass of that step created, and that pass destroyed and
\* moved nothing.
C17_ModeSwitchClears ==
    [][(/\ listening
        /\ \/ mapView = "timeline" /\ mapView' # "timeline"
           \/ listening' /\ shouldShowClusters' # shouldShowClusters)
          => IF lastOp'.kind = "pass"
             THEN /\ DOMAIN markersMap' = lastOp'.created
                  /\ lastOp'.destroyed = {} /\ lastOp'.moved = {}
             ELSE /\ DOMAIN markersMap' = {}
                  /\ lastOp'.kind = "clear"
                  /\ lastOp'.destroyed = DOMAIN markersMap]_vars

\* another view is shown and the step that emptied the pool destroyed the
\* markers of two sessions
C17_Witness ==
    /\ mapLoaded /\ mapView = "countries" /\ DOMAIN markersMap = {}
    /\ lastOp.kind = "clear" /\ lastOp.destroyed = {"s1", "s2"}

C19_ClosedAfterClear ==
    lastOp.kind = "clear" => (~PopupIsOpen /\ openTooltipSessionId = Null)

\* C20: the detail action of the tooltip open for session s selects s,
\* closes the tooltip, clears the 'open for' identifier and leaves the
\* marker pool as it is.
C20_DetailAction ==
    [][DetailClick
          => /\ selectedSession' = openTooltipSessionId
             /\ selectedSession' # Null
             /\ ~PopupIsOpen'
             /\ openTooltipSessionId' = Null
             /\ UNCHANGED <<markersMap, attached>>]_vars

\* the session of a marker still in the pool is selected and the tooltip is
\* closed
C20_Witness ==
    /\ selectedSession = "s1" /\ "s1" \in DOMAIN markersMap
    /\ ~PopupIsOpen /\ openTooltipSessionId = Null

C22_PoolIsAllWithCoords ==
    (listening /\ ~shouldShowClusters /\ lastOp.kind = "pass" /\ lastOp.fetched = {})
       => DOMAIN markersMap =
             {id \in DOMAIN activeSessions :
                 activeSessions[id].lat # <<>> /\ activeSessions[id].lon # <<>>}

C24_SourceIsCurrentSet ==
    listening
       => /\ DOMAIN sourceData =
                {id \in DOMAIN activeSessions :
                    activeSessions[id].lat # <<>> /\ activeSessions[id].lon # <<>>}
          /\ \A id \in DOMAIN sourceData :
                sourceData[id].session = activeSessions[id]

\* C25: while the timeline handlers are subscribed, every run of the marker
\* effect and every zoom, move and sourcedata notification runs updateMarkers
\* once, at once: the call either completes in the step or is suspended with
\* its leaf fetches issued, next to the calls already suspended. No step
\* takes a suspended call away but the callback of its last leaf fetch.
C25_EveryTriggerOwnPass ==
    [][IF \E p \in BagToSet(passes) : \E fetch \in p.pending : \E ok \in BOOLEAN :
             LeafCallback(p, fetch, ok)
       THEN \E p \in BagToSet(passes) :
               /\ (passes (-) SetToBag({p})) \sqsubseteq passes'
               /\ BagCardinality(passes') >= BagCardinality(passes) - 1
               /\ BagCardinality(passes') <= BagCardinality(passes)
       ELSE /\ passes \sqsubseteq passes'
            /\ listening'
                  => \/ /\ passes' = passes
                        /\ lastOp'.kind = "pass" /\ lastOp'.fetched = {}
                     \/ \E p \in BagToSet(passes') :
                           /\ p.pending # {} /\ p.fetched = {f.cluster_id : f \in p.pending}
                           /\ passes' = passes (+) SetToBag({p})]_vars

\* two calls of updateMarkers are suspended at once while the handlers are
\* subscribed: the second was started while the first waited
C25_Witness ==
    /\ listening /\ BagCardinality(passes) = 2

\* C26: a marker element is on the map, with its click listener, exactly
\* while its session has an entry in the pool: the removal pass, the view
\* switch and the teardown take the listener, the element and the pool entry
\* away in one step, so that no destroyed marker can be clicked and the pool
\* holds no destroyed marker.
C26_DestroyedTogether ==
    /\ \A id \in Ids : attached[id] = IF id \in DOMAIN markersMap THEN 1 ELSE 0
    /\ lastOp.kind \in {"pass", "clear"}
          => \A id \in lastOp.destroyed :
                id \notin DOMAIN markersMap /\ attached[id] = 0

\* a removal pass has destroyed a marker and kept another
C26_Witness ==
    /\ lastOp.kind = "pass" /\ lastOp.destroyed # {}
    /\ \A id \in lastOp.destroyed : attached[id] = 0
    /\ DOMAIN markersMap # {}

\* C27: when a call of updateMarkers applies its diff to a pool that already
\* holds a marker for the session of a target feature, that marker is
\* neither destroyed nor created again (its element and the coordinates and
\* session its click handler captured stay), its position is written if and
\* only if it differs from the coordinates of the feature, and after the
\* pass it is at those coordinates. The steps applying a diff to the pool
\* as it was are: a map notification completing at once, the callback of the
\* last leaf fetch of a suspended call, and an effect run with no teardown
\* before it.
C27_UpsertKeepsMarker ==
    [][(\/ BagCardinality(passes') < BagCardinality(passes)
        \/ /\ passes' = passes
           /\ listening'
           /\ (~listening \/ MapEvent(MaxOverlap)))
          => /\ lastOp'.kind = "pass"
             /\ \A i \in DOMAIN lastOp'.feats :
                   LET f == lastOp'.feats[i]
                       id == f.session_id
                   IN  id \in DOMAIN markersMap
                          => /\ id \in DOMAIN markersMap'
                             /\ id \notin lastOp'.created \cup lastOp'.destroyed
                             /\ attached'[id] = attached[id]
                             /\ markersMap'[id].at = markersMap[id].at
                             /\ markersMap'[id].session = markersMap[id].session
                             /\ markersMap'[id].lngLat = f.coordinates
                             /\ id \in lastOp'.moved
                                   <=> markersMap[id].lngLat # f.coordinates]_vars

\* a pass has found the marker of s1 away from the coordinates of its
\* feature and has moved it there, while the marker of s2 stayed
C27_Witness ==
    /\ lastOp.kind = "pass" /\ lastOp.moved = {"s1"} /\ lastOp.created = {}
    /\ \E i \in DOMAIN lastOp.feats :
          /\ lastOp.feats[i].session_id = "s1"
          /\ markersMap["s1"].lngLat = lastOp.feats[i].coordinates
          /\ markersMap["s1"].at # markersMap["s1"].lngLat

\* C28: at most one set of zoom, move, sourcedata and click handlers of the
\* marker effect is subscribed at any time, and one is subscribed exactly
\* while a run of the effect in the timeline view has not been torn down;
\* the step that tears the effect down without running it again in the
\* timeline view leaves the pool empty and no handler subscribed.
C28_TeardownUnsubscribes ==
    [][/\ subscriptions' \in {0, 1}
       /\ subscriptions' = 1 <=> listening'
       /\ (listening /\ ~listening')
             => /\ markersMap' = << >>
                /\ subscriptions = 1 /\ subscriptions' = 0]_vars

\* the effect has been torn down with markers in the pool: they are
\* destroyed and no handler is subscribed
C28_Witness ==
    /\ ~listening /\ subscriptions = 0 /\ markersMap = << >>
    /\ lastOp.kind = "clear" /\ lastOp.destroyed # {}

\* C29: once the marker effect has run on the loaded map, the cluster circle
\* and count layers are visible if and only if the view is the timeline view
\* and more than 500 sessions are active.
C29_LayersVisibleIffClustering ==
    mapLoaded
       => (layersVisible <=> (mapView = "timeline" /\ Length(activeSessions) > 500))

\* more than 500 sessions are active in another view: the layers are hidden
C29_Witness ==
    /\ mapLoaded /\ mapView = "countries" /\ Length(activeSessions) > 500
    /\ ~layersVisible

\* C30: the circle layer and the marker expansion split the clusters a call
\* of updateMarkers sees on one threshold: a cluster is in the circle layer
\* (point count >= 10) if and only if the call does not fetch its leaves
\* (point count < 10). After a completed call no session of a cluster of
\* the circle layer has a marker, and every session of a cluster whose leaf
\* fetch succeeded has one.
C30_CircleOrMarkers ==
    /\ \A p \in BagToSet(passes) : \A c \in p.clusters :
          InClusterLayer(c.point_count) <=> c.cluster_id \notin p.fetched
    /\ lastOp.kind = "pass"
          => \A c \in lastOp.clusters :
                /\ InClusterLayer(c.point_count) <=> c.cluster_id \notin lastOp.fetched
                /\ InClusterLayer(c.point_count)
                      => c.cluster_id \cap DOMAIN markersMap = {}
                /\ c.cluster_id \in lastOp.fetched \ lastOp.failed
                      => c.cluster_id \subseteq DOMAIN markersMap
    /\ (listening /\ shouldShowClusters) => layersVisible

\* a completed call saw a cluster of the circle layer and a later one, at a
\* closer zoom, is suspended on the leaves of a small cluster
C30_Witness ==
    /\ listening /\ shouldShowClusters /\ layersVisible
    /\ lastOp.kind = "pass"
    /\ \E c \in lastOp.clusters : c.point_count >= 10 /\ c.cluster_id \notin lastOp.fetched
    /\ \E p \in BagToSet(passes) : \E c \in p.clusters :
          c.point_count < 10 /\ c.cluster_id \in p.fetched

\* C31: a call of updateMarkers leaves the tooltip as it is: no step that
\* changes the popup, the popup reference or the 'open for' identifier is a
\* map notification, the callback of a leaf fetch, or a run of the marker
\* effect alone; this includes the calls that destroy the marker the tooltip
\* is open for.
C31_PassLeavesTooltip ==
    [][(\/ popups' # popups
        \/ popupRef' # popupRef
        \/ openTooltipSessionId' # openTooltipSessionId)
          => ~(\/ MapEvent(MaxPasses)
               \/ \E p \in BagToSet(passes) : \E fetch \in p.pending :
                     \E ok \in BOOLEAN : LeafCallback(p, fetch, ok)
               \/ \E mv \in MapViews : SetMapView(mv, MaxPasses)
               \/ \E sess \in TooltipFeed : SessionsChange(sess, MaxPasses))]_vars

\* a removal pass has destroyed the marker of the session the tooltip is
\* open for, and the tooltip is as it was
C31_Witness ==
    /\ lastOp.kind = "pass" /\ openTooltipSessionId \in lastOp.destroyed
    /\ PopupIsOpen /\ popups[popupRef].html = openTooltipSessionId

\* C32: the marker elements on the map are those of the pool entries, one
\* each, in every state; what the last pass created is on the map and in
\* the pool, what the last pass or clear destroyed is on neither.
C32_NoLeakedMarkers ==
    /\ {id \in Ids : attached[id] > 0} = DOMAIN markersMap
    /\ \A id \in DOMAIN markersMap : attached[id] = 1
    /\ lastOp.kind = "pass"
          => /\ lastOp.created \subseteq DOMAIN markersMap
             /\ lastOp.created \cap lastOp.destroyed = {}
    /\ lastOp.kind \in {"pass", "clear"}
          => \A id \in lastOp.destroyed : attached[id] = 0

\* a call suspended across a teardown has completed while no effect run is
\* subscribed: the markers it created are on the map and in the pool
C32_Witness ==
    /\ ~listening /\ lastOp.kind = "pass" /\ lastOp.created # {}
    /\ lastOp.created = DOMAIN markersMap
    /\ \A id \in lastOp.created : attached[id] = 1

\* C33: a call of updateMarkers is suspended only on the leaf fetches of
\* small clusters it saw, so a call without a small cluster, and every call
\* without clustering, completes at once; and when the index calls every
\* leaf fetch back, with leaves or with an error, a suspended call reaches
\* its apply step.
C33_PassCompletes ==
    /\ [](\A p \in BagToSet(passes) :
            /\ p.fetched # {}
            /\ \A f \in p.pending :
                  \E c \in p.clusters :
                     c.cluster_id = f.cluster_id /\ IsSmallCluster(c.point_count))
    /\ (passes # EmptyBag)
          ~> (passes = EmptyBag /\ lastOp.kind = "pass" /\ lastOp.fetched # {})

\* a call that fetched the leaves of two small clusters has completed after
\* one of the fetches failed
C33_Witness ==
    /\ passes = EmptyBag /\ lastOp.kind = "pass"
    /\ Cardinality(lastOp.fetched) = 2 /\ Cardinality(lastOp.failed) = 1

\* C34: a feature without session identifier in the list of a pass is a
\* no-op: after the pass no marker stands for it, the pool holds exactly the
\* identifiers of the other features, and each of those has its marker at
\* the coordinates of its feature.
C34_BlankFeatureSkipped ==
    lastOp.kind = "pass"
       => /\ DOMAIN markersMap \subseteq Ids
          /\ lastOp.created \subseteq Ids
          /\ \A id \in Ids : attached[id] = IF id \in DOMAIN markersMap THEN 1 ELSE 0
          /\ DOMAIN markersMap =
                {lastOp.feats[i].session_id : i \in DOMAIN lastOp.feats} \ {""}
          /\ \A i \in DOMAIN lastOp.feats :
                lastOp.feats[i].session_id # ""
                   => markersMap[lastOp.feats[i].session_id].lngLat
                         = lastOp.feats[i].coordinates

\* a pass whose first feature has no session identifier has created the
\* markers of the features after it
C34_Witness ==
    /\ lastOp.kind = "pass" /\ lastOp.feats # <<>>
    /\ lastOp.feats[1].session_id = ""
    /\ lastOp.created = {"s1", "s2"} /\ DOMAIN markersMap = {"s1", "s2"}

====
